---- MODULE Spec2Model ----
(***************************************************************************)
(* Model of pelicanconf.py: the settings module of a Pelican site, and of  *)
(* the way the generator consumes it (setting lookup, substitution into    *)
(* the URL / SAVE_AS templates, selection of a pagination pattern, the     *)
(* static copy and the feed check).                                        *)
(*                                                                         *)
(* Python values are represented as follows: a str is the sequence of its  *)
(* characters, an int is a number, a tuple or list is a sequence, a dict   *)
(* is a function, None is the marker None.  In the module namespace        *)
(* (settings) every value carries its type, so that '', (), [] and None    *)
(* stay different values.                                                  *)
(***************************************************************************)
EXTENDS Integers, Sequences, FiniteSets, TLC

VARIABLES pc, settings, prev, last, feeds

vars == <<pc, settings, prev, last, feeds>>

----------------------------------------------------------------------------
(* Bounds of the model *)

\* longest slug (and front-matter slug) the generator is given
MaxSlugLen == 2

\* highest page index of a paginated listing
MaxPage == 11

----------------------------------------------------------------------------
(* Python values *)

None == <<"None">>

Unset == <<"unset">>

Str(s) == <<"str", s>>

IntVal(n) == <<"int", n>>

Tuple(t) == <<"tuple", t>>

List(l) == <<"list", l>>

Dict(d) == <<"dict", d>>

----------------------------------------------------------------------------
(* The literals of pelicanconf.py *)

AUTHOR == <<"F", "a", "i", "s", "a", "l", " ", "K", "h", "a", "n">>

SITENAME == <<"F", "a", "i", "s", "a", "l", "'", "s", " ", "N", "o", "t", "e", "s">>

TAGLINE == <<"D", "a", "t", "a", " ", "|", " ", "C", "o", "d", "e", " ", "|", " ", "V", "i", "s", "u", "a", "l", "i", "z", "a", "t", "i", "o", "n">>

SITEURL == <<"h", "t", "t", "p", ":", "/", "/", "f", "a", "i", "s", "a", "l", "n", "o", "t", "e", "s", ".", "c", "o", "m">>

PATH == <<"c", "o", "n", "t", "e", "n", "t">>

TIMEZONE == <<"A", "m", "e", "r", "i", "c", "a", "/", "C", "h", "i", "c", "a", "g", "o">>

DEFAULT_LANG == <<"e", "n">>

FILENAME_METADATA == <<"(", "?", "P", "<", "d", "a", "t", "e", ">", "\\", "d", "{", "4", "}", "-", "\\", "d", "{", "2", "}", "-", "\\", "d", "{", "2", "}", ")", "-", "(", "?", "P", "<", "s", "l", "u", "g", ">", ".", "*", ")">>

FEED_ALL_ATOM_enabled == Str(<<"f", "e", "e", "d", "s", "/", "a", "l", "l", ".", "a", "t", "o", "m", ".", "x", "m", "l">>)

FEED_ALL_ATOM == None

CATEGORY_FEED_ATOM == None

TRANSLATION_FEED_ATOM == None

AUTHOR_FEED_ATOM == None

AUTHOR_FEED_RSS == None

THEME == <<"t", "h", "e", "m", "e", "s", "/", "p", "u", "r", "e", "-", "t", "e", "c", "h">>

STATIC_PATHS_noImages == << <<"e", "x", "t", "r", "a", "/", "C", "N", "A", "M", "E">> >>

STATIC_PATHS ==
  << <<"i", "m", "a", "g", "e", "s">>,
     <<"e", "x", "t", "r", "a", "/", "C", "N", "A", "M", "E">> >>

EXTRA_PATH_METADATA ==
  ( <<"i", "m", "a", "g", "e", "s", "/", "f", "a", "v", "i", "c", "o", "n", ".", "p", "n", "g">>
      :> [path |-> <<"f", "a", "v", "i", "c", "o", "n", ".", "p", "n", "g">>] )
  @@
  ( <<"e", "x", "t", "r", "a", "/", "C", "N", "A", "M", "E">>
      :> [path |-> <<"C", "N", "A", "M", "E">>] )

DATE_FORMATS == ( <<"e", "n">> :> <<"%", "Y", "-", "%", "m", "-", "%", "d">> )

SITESUBTITLES == << <<"F", "a", "i", "s", "a", "l", "'", "s", " ", "N", "o", "t", "e", "s">>, <<>> >>

LINKS == <<>>

SOCIAL == <<>>

DEFAULT_PAGINATION == 5

\* page 2 onwards without the {number} field
PAGINATION_PATTERNS_noNumber ==
  << <<1, <<"{", "b", "a", "s", "e", "_", "n", "a", "m", "e", "}", "/">>,
          <<"{", "b", "a", "s", "e", "_", "n", "a", "m", "e", "}", "/", "i", "n", "d", "e", "x", ".", "h", "t", "m", "l">> >>,
     <<2, <<"{", "b", "a", "s", "e", "_", "n", "a", "m", "e", "}", "/", "p", "a", "g", "e", "/">>,
          <<"{", "b", "a", "s", "e", "_", "n", "a", "m", "e", "}", "/", "p", "a", "g", "e", "/", "i", "n", "d", "e", "x", ".", "h", "t", "m", "l">> >> >>

\* the second pattern starting one page late
PAGINATION_PATTERNS_from3 ==
  << <<1, <<"{", "b", "a", "s", "e", "_", "n", "a", "m", "e", "}", "/">>,
          <<"{", "b", "a", "s", "e", "_", "n", "a", "m", "e", "}", "/", "i", "n", "d", "e", "x", ".", "h", "t", "m", "l">> >>,
     <<3, <<"{", "b", "a", "s", "e", "_", "n", "a", "m", "e", "}", "/", "p", "a", "g", "e", "/", "{", "n", "u", "m", "b", "e", "r", "}", "/">>,
          <<"{", "b", "a", "s", "e", "_", "n", "a", "m", "e", "}", "/", "p", "a", "g", "e", "/", "{", "n", "u", "m", "b", "e", "r", "}", "/", "i", "n", "d", "e", "x", ".", "h", "t", "m", "l">> >> >>

\* page 1 saved as <base_name>.html instead of <base_name>/index.html
PAGINATION_PATTERNS_flatFirst ==
  << <<1, <<"{", "b", "a", "s", "e", "_", "n", "a", "m", "e", "}", "/">>,
          <<"{", "b", "a", "s", "e", "_", "n", "a", "m", "e", "}", ".", "h", "t", "m", "l">> >>,
     <<2, <<"{", "b", "a", "s", "e", "_", "n", "a", "m", "e", "}", "/", "p", "a", "g", "e", "/", "{", "n", "u", "m", "b", "e", "r", "}", "/">>,
          <<"{", "b", "a", "s", "e", "_", "n", "a", "m", "e", "}", "/", "p", "a", "g", "e", "/", "{", "n", "u", "m", "b", "e", "r", "}", "/", "i", "n", "d", "e", "x", ".", "h", "t", "m", "l">> >> >>

\* each entry is (minimum page index, URL template, SAVE_AS template)
PAGINATION_PATTERNS ==
  << <<1, <<"{", "b", "a", "s", "e", "_", "n", "a", "m", "e", "}", "/">>,
          <<"{", "b", "a", "s", "e", "_", "n", "a", "m", "e", "}", "/", "i", "n", "d", "e", "x", ".", "h", "t", "m", "l">> >>,
     <<2, <<"{", "b", "a", "s", "e", "_", "n", "a", "m", "e", "}", "/", "p", "a", "g", "e", "/", "{", "n", "u", "m", "b", "e", "r", "}", "/">>,
          <<"{", "b", "a", "s", "e", "_", "n", "a", "m", "e", "}", "/", "p", "a", "g", "e", "/", "{", "n", "u", "m", "b", "e", "r", "}", "/", "i", "n", "d", "e", "x", ".", "h", "t", "m", "l">> >> >>

PLUGIN_PATHS ==
  << <<"p", "e", "l", "i", "c", "a", "n", "-", "p", "l", "u", "g", "i", "n", "s">>,
     <<"p", "l", "u", "g", "i", "n", "s">> >>

DIRECT_TEMPLATES == << <<"i", "n", "d", "e", "x">>, <<"a", "r", "c", "h", "i", "v", "e", "s">> >>

ARCHIVES_SAVE_AS == <<"a", "r", "c", "h", "i", "v", "e", "s", "/", "i", "n", "d", "e", "x", ".", "h", "t", "m", "l">>

ARTICLE_URL == <<"{", "s", "l", "u", "g", "}", "/">>

ARTICLE_SAVE_AS == <<"{", "s", "l", "u", "g", "}", "/", "i", "n", "d", "e", "x", ".", "h", "t", "m", "l">>

PAGE_URL == <<"{", "s", "l", "u", "g", "}", "/">>

PAGE_SAVE_AS == <<"{", "s", "l", "u", "g", "}", "/", "i", "n", "d", "e", "x", ".", "h", "t", "m", "l">>

TAG_URL == <<"t", "a", "g", "/", "{", "s", "l", "u", "g", "}", "/">>

TAG_SAVE_AS_flat == <<"t", "a", "g", "/", "{", "s", "l", "u", "g", "}", ".", "h", "t", "m", "l">>

TAG_SAVE_AS == <<"t", "a", "g", "/", "{", "s", "l", "u", "g", "}", "/", "i", "n", "d", "e", "x", ".", "h", "t", "m", "l">>

TAGS_SAVE_AS == <<>>

AUTHOR_URL == <<>>

AUTHOR_SAVE_AS == <<>>

CATEGORY_URL == <<>>

CATEGORY_SAVE_AS == <<>>

----------------------------------------------------------------------------
(* The module body: its assignment statements, top to bottom *)

Statements ==
  << <<"AUTHOR", Str(AUTHOR)>>,
     <<"SITENAME", Str(SITENAME)>>,
     <<"TAGLINE", Str(TAGLINE)>>,
     <<"SITEURL", Str(SITEURL)>>,
     <<"PATH", Str(PATH)>>,
     <<"TIMEZONE", Str(TIMEZONE)>>,
     <<"DEFAULT_LANG", Str(DEFAULT_LANG)>>,
     <<"FILENAME_METADATA", Str(FILENAME_METADATA)>>,
     <<"FEED_ALL_ATOM", FEED_ALL_ATOM>>,
     <<"CATEGORY_FEED_ATOM", CATEGORY_FEED_ATOM>>,
     <<"TRANSLATION_FEED_ATOM", TRANSLATION_FEED_ATOM>>,
     <<"AUTHOR_FEED_ATOM", AUTHOR_FEED_ATOM>>,
     <<"AUTHOR_FEED_RSS", AUTHOR_FEED_RSS>>,
     <<"THEME", Str(THEME)>>,
     <<"STATIC_PATHS", List(STATIC_PATHS)>>,
     <<"EXTRA_PATH_METADATA", Dict(EXTRA_PATH_METADATA)>>,
     <<"DATE_FORMATS", Dict(DATE_FORMATS)>>,
     <<"SITESUBTITLES", Tuple(SITESUBTITLES)>>,
     <<"LINKS", Tuple(LINKS)>>,
     <<"SOCIAL", Tuple(SOCIAL)>>,
     <<"DEFAULT_PAGINATION", IntVal(DEFAULT_PAGINATION)>>,
     <<"PAGINATION_PATTERNS", Tuple(PAGINATION_PATTERNS)>>,
     <<"PLUGIN_PATHS", List(PLUGIN_PATHS)>>,
     <<"DIRECT_TEMPLATES", Tuple(DIRECT_TEMPLATES)>>,
     <<"ARCHIVES_SAVE_AS", Str(ARCHIVES_SAVE_AS)>>,
     <<"ARTICLE_URL", Str(ARTICLE_URL)>>,
     <<"ARTICLE_SAVE_AS", Str(ARTICLE_SAVE_AS)>>,
     <<"PAGE_URL", Str(PAGE_URL)>>,
     <<"PAGE_SAVE_AS", Str(PAGE_SAVE_AS)>>,
     <<"TAG_URL", Str(TAG_URL)>>,
     <<"TAG_SAVE_AS", Str(TAG_SAVE_AS)>>,
     <<"TAGS_SAVE_AS", Str(TAGS_SAVE_AS)>>,
     <<"AUTHOR_URL", Str(AUTHOR_URL)>>,
     <<"AUTHOR_SAVE_AS", Str(AUTHOR_SAVE_AS)>>,
     <<"CATEGORY_URL", Str(CATEGORY_URL)>>,
     <<"CATEGORY_SAVE_AS", Str(CATEGORY_SAVE_AS)>> >>

\* the module with SITEURL assigned a second time at its end
ModuleBody_reassign == Append(Statements, <<"SITEURL", Str(<<>>)>>)

\* what importing the module executes
ModuleBody == Statements

SettingNames == { ModuleBody[i][1] : i \in 1..Len(ModuleBody) }

\* the module has been executed to its end
Loaded == pc > Len(ModuleBody)

\* the Python value bound to a name
Setting(k) == settings[k][2]

----------------------------------------------------------------------------
(* Python string operations the generator applies to the settings *)

StartsWith(s, p) == Len(p) <= Len(s) /\ SubSeq(s, 1, Len(p)) = p

EndsWith(s, p) == Len(p) <= Len(s) /\ SubSeq(s, Len(s) - Len(p) + 1, Len(s)) = p

SetMax(S) == CHOOSE x \in S : \A y \in S : y <= x

\* s.rfind(c) + 1: the position of the last c in s, 0 when there is none
RFind(s, c) ==
  LET at == { i \in 1..Len(s) : s[i] = c }
  IN  IF at = {} THEN 0 ELSE SetMax(at)

\* s.rstrip('/')
RECURSIVE RStripSlash(_)
RStripSlash(s) ==
  IF s # <<>> /\ s[Len(s)] = "/" THEN RStripSlash(SubSeq(s, 1, Len(s) - 1)) ELSE s

\* posixpath.split
Split(p) ==
  LET i    == RFind(p, "/")
      head == SubSeq(p, 1, i)
      tail == SubSeq(p, i + 1, Len(p))
  IN  [head |-> IF head # <<>> /\ RStripSlash(head) # <<>> THEN RStripSlash(head) ELSE head,
       tail |-> tail]

\* posixpath.splitext
SplitExt(p) ==
  LET sep == RFind(p, "/")
      dot == RFind(p, ".")
  IN  IF dot > sep /\ \E i \in (sep + 1)..(dot - 1) : p[i] # "."
      THEN [root |-> SubSeq(p, 1, dot - 1), ext |-> SubSeq(p, dot, Len(p))]
      ELSE [root |-> p, ext |-> <<>>]

Digits == <<"0", "1", "2", "3", "4", "5", "6", "7", "8", "9">>

IsDigit(c) == \E d \in 1..Len(Digits) : Digits[d] = c

\* str(n) of a non-negative int
RECURSIVE Dec(_)
Dec(n) ==
  IF n < 10 THEN <<Digits[n + 1]>> ELSE Dec(n \div 10) \o <<Digits[(n % 10) + 1]>>

\* format(v, ''): what str.format puts in place of a field
Display(v) == IF v[1] = "int" THEN Dec(v[2]) ELSE v[2]

\* template.format(**ctx): literal text is copied, {name} is replaced by
\* the display of ctx[name]; the replacement text is not scanned again
RECURSIVE FormatFrom(_, _, _)
FormatFrom(t, i, ctx) ==
  IF i > Len(t) THEN <<>>
  ELSE IF t[i] = "{"
       THEN LET close == CHOOSE j \in (i + 1)..Len(t) :
                           t[j] = "}" /\ \A k \in (i + 1)..(j - 1) : t[k] # "}"
            IN  Display(ctx[SubSeq(t, i + 1, close - 1)]) \o FormatFrom(t, close + 1, ctx)
       ELSE <<t[i]>> \o FormatFrom(t, i + 1, ctx)

Format(t, ctx) == FormatFrom(t, 1, ctx)

\* re.match(FILENAME_METADATA, base): four digits, '-', two digits, '-',
\* two digits (group date), '-', then the rest of the name (group slug)
MatchFilenameMetadata(base) ==
  IF /\ Len(base) >= 11
     /\ \A i \in {1, 2, 3, 4, 6, 7, 9, 10} : IsDigit(base[i])
     /\ \A i \in {5, 8, 11} : base[i] = "-"
  THEN [matched |-> TRUE, date |-> SubSeq(base, 1, 10), slug |-> SubSeq(base, 12, Len(base))]
  ELSE [matched |-> FALSE]

----------------------------------------------------------------------------
(* Inputs of a generation run *)

SlugAlphabet == {"a", "b"}

Strings(S, n) == UNION { [1..k -> S] : k \in 0..n }

Slugs == Strings(SlugAlphabet, MaxSlugLen)

SampleDates == { <<"2", "0", "1", "4", "-", "0", "1", "-", "0", "5">> }

\* base names (without extension) of the content source files
FileNames ==
  { d \o <<"-">> \o s : d \in SampleDates, s \in Slugs } \cup { <<"a", "b", "o", "u", "t">> }

\* files of the project tree under PATH
ProjectFiles ==
  { <<"i", "m", "a", "g", "e", "s", "/", "f", "a", "v", "i", "c", "o", "n", ".", "p", "n", "g">>,
    <<"i", "m", "a", "g", "e", "s", "/", "l", "o", "g", "o", ".", "p", "n", "g">>,
    <<"e", "x", "t", "r", "a", "/", "C", "N", "A", "M", "E">>,
    <<"e", "x", "t", "r", "a", "/", "r", "o", "b", "o", "t", "s", ".", "t", "x", "t">> }

Kinds == {"article", "page", "tag", "author", "category"}

URLKey ==
  [article |-> "ARTICLE_URL", page |-> "PAGE_URL", tag |-> "TAG_URL",
   author |-> "AUTHOR_URL", category |-> "CATEGORY_URL"]

SaveAsKey ==
  [article |-> "ARTICLE_SAVE_AS", page |-> "PAGE_SAVE_AS", tag |-> "TAG_SAVE_AS",
   author |-> "AUTHOR_SAVE_AS", category |-> "CATEGORY_SAVE_AS"]

FeedSettings ==
  {"FEED_ALL_ATOM", "CATEGORY_FEED_ATOM", "TRANSLATION_FEED_ATOM",
   "AUTHOR_FEED_ATOM", "AUTHOR_FEED_RSS"}

----------------------------------------------------------------------------
(* How the generator uses the settings *)

\* the metadata a URL / SAVE_AS template is formatted with
SlugContext(slug) == ( <<"s", "l", "u", "g">> :> Str(slug) )

ContentURL(kind, slug) == Format(Setting(URLKey[kind]), SlugContext(slug))

ContentSaveAs(kind, slug) == Format(Setting(SaveAsKey[kind]), SlugContext(slug))

\* bool(v) of a setting
Truthy(v) == v # None /\ v[2] # <<>> /\ v # IntVal(0)

\* a pattern applies from its minimum page index on
Matches(pattern, number) == pattern[1] <= number

\* the entries of PAGINATION_PATTERNS that apply to a page index
MatchingEntries(number) ==
  { i \in 1..Len(Setting("PAGINATION_PATTERNS")) :
      Matches(Setting("PAGINATION_PATTERNS")[i], number) }

\* the patterns are scanned in order and the last one that applies is kept;
\* 0 when none applies
SelectRule(number) ==
  IF MatchingEntries(number) = {} THEN 0 ELSE SetMax(MatchingEntries(number))

\* {base_name} of a paginated listing saved as save_as: its directory when
\* the file is an index file, else the path without its extension
BaseName(save_as) ==
  IF Split(save_as).tail \in { <<"i", "n", "d", "e", "x", ".", "h", "t", "m">>,
                               <<"i", "n", "d", "e", "x", ".", "h", "t", "m", "l">> }
  THEN Split(save_as).head
  ELSE SplitExt(save_as).root

PageContext(save_as, url, number) ==
  ( <<"s", "a", "v", "e", "_", "a", "s">> :> Str(save_as) ) @@
  ( <<"u", "r", "l">> :> Str(url) ) @@
  ( <<"n", "a", "m", "e">> :> Str(SplitExt(save_as).root) ) @@
  ( <<"b", "a", "s", "e", "_", "n", "a", "m", "e">> :> Str(BaseName(save_as)) ) @@
  ( <<"e", "x", "t", "e", "n", "s", "i", "o", "n">> :> Str(SplitExt(save_as).ext) ) @@
  ( <<"n", "u", "m", "b", "e", "r">> :> IntVal(number) )

\* one leading '/' of a formatted pagination path is dropped
DropLeadingSlash(s) == IF s # <<>> /\ Head(s) = "/" THEN Tail(s) ELSE s

\* URL (field 2) or SAVE_AS (field 3) of page `number` of the listing
PageFromSettings(field, save_as, url, number) ==
  IF SelectRule(number) = 0 THEN <<>>
  ELSE DropLeadingSlash(
         Format(Setting("PAGINATION_PATTERNS")[SelectRule(number)][field],
                PageContext(save_as, url, number)))

\* a file of the tree is copied when it is an entry of STATIC_PATHS or lies
\* in a directory that is one
IsStatic(f) ==
  \E i \in 1..Len(Setting("STATIC_PATHS")) :
     \/ f = Setting("STATIC_PATHS")[i]
     \/ StartsWith(f, Setting("STATIC_PATHS")[i] \o <<"/">>)

\* where a static file goes: the 'path' of its EXTRA_PATH_METADATA entry
\* when it has one, else its own path
StaticSaveAs(f) ==
  IF f \in DOMAIN Setting("EXTRA_PATH_METADATA")
  THEN Setting("EXTRA_PATH_METADATA")[f].path
  ELSE f

----------------------------------------------------------------------------
(* The run: the module is executed, then the generator reads it *)

NoOp == [op |-> "none"]

Routed(kind, slug) ==
  [op |-> "route", kind |-> kind, slug |-> slug,
   url |-> ContentURL(kind, slug), save_as |-> ContentSaveAs(kind, slug)]

\* the content output written just before the next one, if the last step
\* wrote one
Before == IF last.op = "route" THEN last ELSE NoOp

Init ==
  /\ pc = 1
  /\ settings = [k \in SettingNames |-> Unset]
  /\ prev = NoOp
  /\ last = NoOp
  /\ feeds = {}

\* the next assignment statement of the module binds its name
Load ==
  /\ pc <= Len(ModuleBody)
  /\ settings' = [settings EXCEPT ![ModuleBody[pc][1]] = ModuleBody[pc][2]]
  /\ pc' = pc + 1
  /\ UNCHANGED <<prev, last, feeds>>

\* an article or a page whose slug comes from its file name
RouteContent(kind, base) ==
  /\ Loaded
  /\ MatchFilenameMetadata(base).matched
  /\ last' = Routed(kind, MatchFilenameMetadata(base).slug)
  /\ prev' = Before
  /\ UNCHANGED <<pc, settings, feeds>>

\* a tag, author or category listing
RouteWrapper(kind, slug) ==
  /\ Loaded
  /\ last' = Routed(kind, slug)
  /\ prev' = Before
  /\ UNCHANGED <<pc, settings, feeds>>

\* the archives direct template
RouteArchives ==
  /\ Loaded
  /\ last' = [op |-> "route", kind |-> "archives", slug |-> <<>>,
              save_as |-> Setting("ARCHIVES_SAVE_AS")]
  /\ prev' = Before
  /\ UNCHANGED <<pc, settings, feeds>>

\* page `number` of the listing the run is at
Paginate(number) ==
  /\ Loaded
  /\ last.op \in {"route", "page"}
  /\ last.kind \in Kinds
  /\ LET save_as == ContentSaveAs(last.kind, last.slug)
         url     == ContentURL(last.kind, last.slug)
     IN  last' = [op |-> "page", kind |-> last.kind, slug |-> last.slug,
                  number |-> number,
                  rule |-> SelectRule(number),
                  base_name |-> BaseName(save_as),
                  url |-> PageFromSettings(2, save_as, url, number),
                  save_as |-> PageFromSettings(3, save_as, url, number)]
  /\ prev' = NoOp
  /\ UNCHANGED <<pc, settings, feeds>>

\* a static file is copied to the output
CopyStatic(f) ==
  /\ Loaded
  /\ IsStatic(f)
  /\ last' = [op |-> "static", source |-> f, save_as |-> StaticSaveAs(f)]
  /\ prev' = NoOp
  /\ UNCHANGED <<pc, settings, feeds>>

\* a feed is written when its setting is truthy
CheckFeed(key) ==
  /\ Loaded
  /\ last' = [op |-> "feed", setting |-> key, produced |-> Truthy(settings[key])]
  /\ feeds' = IF Truthy(settings[key]) THEN feeds \cup {key} ELSE feeds
  /\ prev' = NoOp
  /\ UNCHANGED <<pc, settings>>

Next ==
  \/ Load
  \/ \E kind \in {"article", "page"}, base \in FileNames : RouteContent(kind, base)
  \/ \E kind \in {"tag", "author", "category"}, slug \in Slugs : RouteWrapper(kind, slug)
  \/ RouteArchives
  \/ \E number \in 1..MaxPage : Paginate(number)
  \/ \E f \in ProjectFiles : CopyStatic(f)
  \/ \E key \in FeedSettings : CheckFeed(key)

Spec == Init /\ [][Next]_vars

----------------------------------------------------------------------------
(* Properties *)

IndexHtml == <<"i", "n", "d", "e", "x", ".", "h", "t", "m", "l">>

\* the value of a string of decimal digits
RECURSIVE DecimalValue(_)
DecimalValue(s) ==
  IF s = <<>> THEN 0
  ELSE 10 * DecimalValue(SubSeq(s, 1, Len(s) - 1))
       + (CHOOSE d \in 0..9 : Digits[d + 1] = s[Len(s)])

\* s is the decimal literal of n
IsLiteralOf(s, n) ==
  /\ s # <<>>
  /\ \A i \in 1..Len(s) : IsDigit(s[i])
  /\ Len(s) > 1 => s[1] # "0"
  /\ DecimalValue(s) = n

\* dir ends in '/': the path is 'page/<literal of n>/' below some prefix
IsPageDir(dir, n) ==
  /\ EndsWith(dir, <<"/">>)
  /\ LET body == SubSeq(dir, 1, Len(dir) - 1)
         cut  == RFind(body, "/")
     IN  /\ IsLiteralOf(SubSeq(body, cut + 1, Len(body)), n)
         /\ EndsWith(SubSeq(body, 1, cut), <<"p", "a", "g", "e", "/">>)

\* C1: for every content kind with both templates and every slug, the save
\* path is the URL followed by 'index.html' when the URL ends in '/', and
\* the URL itself otherwise
C1_SaveAsFollowsUrl ==
  (last.op = "route" /\ last.kind \in Kinds) =>
     IF EndsWith(last.url, <<"/">>)
     THEN last.save_as = last.url \o IndexHtml
     ELSE last.save_as = last.url

\* C1 witness: the tag 'a' was routed to tag/a/ and tag/a/index.html
C1_Witness ==
  /\ last.op = "route" /\ last.kind = "tag" /\ last.slug = <<"a">>
  /\ last.url = <<"t", "a", "g", "/", "a", "/">>
  /\ last.save_as = <<"t", "a", "g", "/", "a", "/">> \o IndexHtml

C3_PageNumberInPath ==
  (last.op = "page" /\ last.number >= 2) =>
     LET save_as == ContentSaveAs(last.kind, last.slug)
         url     == ContentURL(last.kind, last.slug)
     IN  /\ IsPageDir(last.url, last.number)
         /\ EndsWith(last.save_as, IndexHtml)
         /\ IsPageDir(SubSeq(last.save_as, 1, Len(last.save_as) - Len(IndexHtml)),
                      last.number)
         /\ \A m \in 1..(MaxPage + 1) :
              m # last.number =>
                 /\ PageFromSettings(2, save_as, url, m) # last.url
                 /\ PageFromSettings(3, save_as, url, m) # last.save_as

\* C3 witness: page 11 of the tag 'a' is tag/a/page/11/
C3_Witness ==
  /\ last.op = "page" /\ last.number = 11
  /\ last.kind = "tag" /\ last.slug = <<"a">>
  /\ last.url = <<"t", "a", "g", "/", "a", "/", "p", "a", "g", "e", "/", "1", "1", "/">>

\* the first entry, in list order, that applies to a page index
FirstMatch(number) ==
  CHOOSE i \in MatchingEntries(number) : \A j \in MatchingEntries(number) : i <= j

C5_FeedsDisabled ==
  /\ feeds = {}
  /\ Loaded => \A k \in FeedSettings : settings[k] = None /\ settings[k] # Str(<<>>)

\* C5 witness: the generator checked FEED_ALL_ATOM and wrote nothing
C5_Witness ==
  /\ last.op = "feed" /\ last.setting = "FEED_ALL_ATOM" /\ ~last.produced
  /\ feeds = {}

\* C6: a setting, once bound, keeps its value, and no step after the module
\* has been executed changes any setting
C6_ConfigurationFrozen ==
  [][ /\ \A k \in SettingNames : settings[k] # Unset => settings'[k] = settings[k]
      /\ Loaded => settings' = settings ]_vars

\* C6 witness: after the module was executed the generator looked up
\* settings, substituted into a template and selected a pagination rule
C6_Witness ==
  /\ Loaded
  /\ last.op = "page" /\ last.number = 2
  /\ \A k \in SettingNames : settings[k] # Unset

\* C7 as stated: for every template pair and every slug FILENAME_METADATA
\* can extract, the save path is non-empty, does not start with '/' and
\* names a file
C7_SaveAsIsRelativeFile ==
  (last.op = "route" /\ last.kind \in Kinds) =>
     /\ last.save_as # <<>>
     /\ last.save_as[1] # "/"
     /\ last.save_as[Len(last.save_as)] # "/"

\* f is dir or lies below it
Under(f, dir) == f = dir \/ StartsWith(f, dir \o <<"/">>)

\* C9: every key of EXTRA_PATH_METADATA is an entry of STATIC_PATHS or lies
\* under one, a copied file that has an entry goes to the path of the
\* entry, and the paths of the entries are pairwise distinct
C9_RenamesApplyAndDiffer ==
  Loaded =>
     /\ \A k \in DOMAIN Setting("EXTRA_PATH_METADATA") :
          \E i \in 1..Len(Setting("STATIC_PATHS")) : Under(k, Setting("STATIC_PATHS")[i])
     /\ \A j, k \in DOMAIN Setting("EXTRA_PATH_METADATA") :
          j # k => Setting("EXTRA_PATH_METADATA")[j].path
                     # Setting("EXTRA_PATH_METADATA")[k].path
     /\ (last.op = "static" /\ last.source \in DOMAIN Setting("EXTRA_PATH_METADATA")) =>
          last.save_as = Setting("EXTRA_PATH_METADATA")[last.source].path

\* C9 witness: images/favicon.png was copied to favicon.png
C9_Witness ==
  /\ last.op = "static"
  /\ last.source = <<"i", "m", "a", "g", "e", "s", "/", "f", "a", "v", "i", "c", "o", "n", ".", "p", "n", "g">>
  /\ last.save_as = <<"f", "a", "v", "i", "c", "o", "n", ".", "p", "n", "g">>

\* C10 as stated: two different (kind, slug) outputs among the articles,
\* the pages, the tags and the archive index never have the same save path
C10_NoSavePathCollision ==
  (/\ prev.op = "route" /\ last.op = "route"
   /\ prev.kind \in {"article", "page", "tag", "archives"}
   /\ last.kind \in {"article", "page", "tag", "archives"}
   /\ <<prev.kind, prev.slug>> # <<last.kind, last.slug>>) =>
     prev.save_as # last.save_as

====
